---- MODULE Spec2Model ----
(***************************************************************************)
(* Model of the stream multiplexer of pyacexy (src/pyacexy/proxy.py):      *)
(* the registry AcexyProxy.streams guarded by streams_lock, the            *)
(* OngoingStream sessions guarded by their own lock, the request handler   *)
(* handle_getstream and the producer task _start_acestream_fetch.          *)
(*                                                                         *)
(* The program runs on one asyncio event loop: the code between two        *)
(* awaits is one atomic step.  Every action below is the code of one task  *)
(* from the await it resumes at up to the next await it suspends at.       *)
(* asyncio.Lock is modelled as it is implemented: acquire() returns at     *)
(* once when the lock is free and nobody waits, otherwise the task joins   *)
(* a FIFO of waiters and the lock is handed to the head of the FIFO.       *)
(***************************************************************************)
EXTENDS Integers, Sequences, FiniteSets, TLC

\* ---------------------------------------------------------------- bounds
NumHandlers == 3      \* handle_getstream requests over a run
MaxRequests == 2      \* handle_getstream requests over a run with time passing
MaxInFlight == 2      \* handle_getstream requests in progress at once
MaxSessions == 2      \* OngoingStream objects ever constructed
MaxChunks   == 3      \* body chunks one upstream response can deliver
MaxTime     == 32     \* last instant of the event loop clock (seconds)

\* ------------------------------------------------------ program constants
SweepInterval == 15   \* stale sweep period, seconds
StaleAfter    == 30   \* stale threshold, seconds
EmptyTimeout  == 60   \* default upstream read timeout, seconds
\* Granularity of the modelled clock: one step is just over a sweep period,
\* two steps are just over the stale threshold.
TickLen       == SweepInterval + 1

\* Values of the query parameters of a request; "" is a missing or empty one.
IdValues       == {"", "A"}
InfohashValues == {"", "B"}
\* How the requests to the middleware can end.
ConnectOutcomes == {"ok", "status", "timeout", "error"}
ReadOutcomes    == {"chunk", "eos", "timeout", "error"}
StopOutcomes    == {"ok", "status", "error", "exception"}
\* How an open call (_fetch_stream_info) can end.
OpenOutcomes   == {"ok", "status", "error", "missing", "timeout"}

Handlers == 1..NumHandlers
Sessions == 1..MaxSessions
Keys     == {"A", "B"}
NoKey    == ""
NoTime   == -1        \* absent entry of client_last_write
NoCount  == -1        \* absent field of a status answer

\* Task identities, used as lock holders and lock waiters.
HandlerTask(h)  == h
ProducerTask(s) == NumHandlers + s
StatusTask      == NumHandlers + MaxSessions + 1
NoTask          == 0

VARIABLES
    now,           \* asyncio.get_event_loop().time()
    streams,       \* AcexyProxy.streams: key -> session (0: key absent)
    streams_lock,  \* AcexyProxy.streams_lock: [holder, waiters]
    nsess,         \* number of OngoingStream objects constructed so far
    ongoing,       \* session -> the fields of the OngoingStream object
    fetch,         \* session -> the frame of its _start_acestream_fetch task
    getstream,     \* handler -> the frame of its handle_getstream call
    recv,          \* handler -> chunks successfully written to its response
    statusreq      \* the frame of the handle_status call

vars == <<now, streams, streams_lock, nsess, ongoing, fetch, getstream, recv,
          statusreq>>

\* ------------------------------------------------------------ asyncio.Lock
\* Lock.acquire() fast path: not locked and no waiter queued.
LockFree(l) == l.holder = NoTask /\ l.waiters = <<>>

\* A waiter is resumed when the lock was released and it is first in line.
LockGranted(l, t) == l.holder = NoTask /\ l.waiters # <<>> /\ Head(l.waiters) = t

Enqueue(l, t) == [l EXCEPT !.waiters = Append(@, t)]
Dequeue(l)    == [l EXCEPT !.waiters = Tail(@)]
Hold(l, t)    == [l EXCEPT !.holder = t]
Release(l)    == [l EXCEPT !.holder = NoTask]

\* -------------------------------------------------------------- the objects
\* OngoingStream.__init__
NewOngoingStream(k) ==
    [stream_id |-> k, clients |-> {}, task |-> "none",
     lock |-> [holder |-> NoTask, waiters |-> <<>>],
     done |-> FALSE, started |-> FALSE, first_chunk |-> FALSE,
     client_last_write |-> [h \in Handlers |-> NoTime],
     spawns |-> 0, stops |-> 0]

\* A session slot no OngoingStream has been constructed in yet.
NoOngoingStream == NewOngoingStream(NoKey)

\* The locals of a producer task that has not been created.
NoFetch ==
    [pc |-> "none", chunk_count |-> 0, last_cleanup |-> 0, current_time |-> 0,
     todo |-> {}, dead_clients |-> {}, write_since |-> 0, stop_failed |-> FALSE]

\* The locals of a handler that has not been called.  open_outcome records
\* how the handler's own open call ended ("" when it made none); read_before
\* and fanned_before record how many chunks the session's producer had read
\* and had fanned out when the handler's response joined ongoing.clients;
\* attached_at is the time at which it joined;
\* cancelled tells that the task was cancelled (CancelledError was thrown into
\* the await it was suspended at).
NoRequest ==
    [pc |-> "idle", stream_id |-> "", infohash |-> "", has_pid |-> FALSE,
     key |-> NoKey, open_outcome |-> "", ongoing |-> 0, need_to_wait |-> FALSE,
     prepared |-> FALSE, status |-> 0, read_before |-> 0, fanned_before |-> 0,
     cancelled |-> FALSE, attached_at |-> NoTime]

\* The locals of handle_status before it is called; code, streams and clients
\* are the status and the JSON fields of its answer (NoCount: field absent).
NoStatus ==
    [pc |-> "idle", stream_id |-> "", infohash |-> "", ongoing |-> 0,
     code |-> 0, streams |-> NoCount, clients |-> NoCount]

Init ==
    /\ now = 0
    /\ streams = [k \in Keys |-> 0]
    /\ streams_lock = [holder |-> NoTask, waiters |-> <<>>]
    /\ nsess = 0
    /\ ongoing = [s \in Sessions |-> NoOngoingStream]
    /\ fetch = [s \in Sessions |-> NoFetch]
    /\ getstream = [h \in Handlers |-> NoRequest]
    /\ recv = [h \in Handlers |-> <<>>]
    /\ statusreq = NoStatus

\* ------------------------------------------------------- handle_getstream
\* Validate as it would be without the check of the pid parameter.
ValidateAllowsPid(id, infohash, pid) ==
    IF id = "" /\ infohash = "" THEN 400
    ELSE IF id # "" /\ infohash # "" THEN 400
    ELSE 0

\* The status the parameter validation answers with; 0 when the request passes.
Validate(id, infohash, pid) ==
    IF id = "" /\ infohash = "" THEN 400
    ELSE IF id # "" /\ infohash # "" THEN 400
    ELSE IF pid THEN 400
    ELSE 0

\* key = stream_id or infohash
KeyOf(id, infohash) == IF id # "" THEN id ELSE infohash

\* The frame of a handler that returned a plain web.Response with status st.
Returned(g, st) == [g EXCEPT !.pc = "returned", !.status = st]

\* Where the handler continues once it holds a session: it builds the
\* response and awaits response.prepare(request) before the attach.
AfterLookup == "prepare"

\* Lookup as it would be if _fetch_stream_info were awaited after leaving
\* the "async with self.streams_lock" block.
LookupUnlocked(h, g, l) ==
    IF streams[g.key] = 0
    THEN /\ streams_lock' = l
         /\ getstream' = [getstream EXCEPT ![h] = [g EXCEPT !.pc = "open"]]
    ELSE /\ streams_lock' = l
         /\ getstream' = [getstream EXCEPT ![h] =
                [g EXCEPT !.pc = AfterLookup, !.ongoing = streams[g.key]]]

\* The body of "async with self.streams_lock" up to its first await, entered
\* by handler h whose frame is g, with the lock l just acquired.
Lookup(h, g, l) ==
    IF streams[g.key] = 0
    THEN \* key not in self.streams: await self._fetch_stream_info(...)
         /\ streams_lock' = Hold(l, HandlerTask(h))
         /\ getstream' = [getstream EXCEPT ![h] = [g EXCEPT !.pc = "open"]]
    ELSE \* ongoing = self.streams[key]; then await response.prepare(request)
         /\ streams_lock' = l
         /\ getstream' = [getstream EXCEPT ![h] =
                [g EXCEPT !.pc = AfterLookup, !.ongoing = streams[g.key]]]

\* The handlers that were called and have not returned or raised.
InFlight == {h \in Handlers : getstream[h].pc \notin {"idle", "returned", "raised"}}

\* A request arrives: validation, then the attempt to take streams_lock.
\* Requests are numbered in their order of arrival.
HandleGetstream(h, id, infohash, pid) ==
    /\ getstream[h].pc = "idle"
    /\ \A h0 \in Handlers : h0 < h => getstream[h0].pc # "idle"
    /\ Cardinality(InFlight) < MaxInFlight
    /\ LET g == [getstream[h] EXCEPT !.stream_id = id, !.infohash = infohash,
                                     !.has_pid = pid]
       IN IF Validate(id, infohash, pid) # 0
          THEN /\ getstream' = [getstream EXCEPT ![h] =
                                    Returned(g, Validate(id, infohash, pid))]
               /\ UNCHANGED streams_lock
          ELSE LET gk == [g EXCEPT !.key = KeyOf(id, infohash)]
               IN IF LockFree(streams_lock)
                  THEN Lookup(h, gk, streams_lock)
                  ELSE /\ streams_lock' = Enqueue(streams_lock, HandlerTask(h))
                       /\ getstream' = [getstream EXCEPT ![h] =
                                            [gk EXCEPT !.pc = "wait_streams_lock"]]
    /\ UNCHANGED <<statusreq, now, streams, nsess, ongoing, fetch, recv>>

\* A handler queued on streams_lock is handed the lock.
GetstreamLockAcquired(h) ==
    /\ getstream[h].pc = "wait_streams_lock"
    /\ LockGranted(streams_lock, HandlerTask(h))
    /\ Lookup(h, getstream[h], Dequeue(streams_lock))
    /\ UNCHANGED <<statusreq, now, streams, nsess, ongoing, fetch, recv>>

\* OpenFails as it would be without the check of the error field.
OpenFailsUnlessError(outcome) == outcome \notin {"ok", "error"}

\* _fetch_stream_info raises: on a status other than 200, a truthy error
\* field, a missing response, playback_url or command_url, and a timeout.
OpenFails(outcome) == outcome # "ok"

\* _fetch_stream_info returns or raises, inside "async with self.streams_lock".
FetchStreamInfoReturns(h, outcome) ==
    /\ getstream[h].pc = "open"
    /\ LET g == [getstream[h] EXCEPT !.open_outcome = outcome]
       IN IF ~OpenFails(outcome)
          THEN /\ nsess < MaxSessions
               /\ nsess' = nsess + 1
               /\ ongoing' = [ongoing EXCEPT ![nsess + 1] = NewOngoingStream(g.key)]
               /\ streams' = [streams EXCEPT ![g.key] = nsess + 1]
               /\ getstream' = [getstream EXCEPT ![h] =
                      [g EXCEPT !.pc = AfterLookup, !.ongoing = nsess + 1]]
          ELSE /\ getstream' = [getstream EXCEPT ![h] = Returned(g, 500)]
               /\ UNCHANGED <<nsess, ongoing, streams>>
    /\ streams_lock' = Release(streams_lock)
    /\ UNCHANGED <<statusreq, now, fetch, recv>>

\* The locals of a producer task right after asyncio.create_task: it is
\* awaiting the response of self.session.get(playback_url).
StartFetch == [NoFetch EXCEPT !.pc = "connect"]

\* if ongoing.task is None or ongoing.task.done()
TaskInactive(o) == o.task \in {"none", "done"}

\* The body of "async with ongoing.lock" of the attach, on session record o.
AttachSession(o, h) ==
    LET o1 == [o EXCEPT !.clients = @ \cup {h}]
    IN IF TaskInactive(o)
       THEN [o1 EXCEPT !.task = "running", !.spawns = @ + 1]
       ELSE o1

\* The chunks producer locals f have read: chunk_count.
ReadSoFar(f) == f.chunk_count

\* The chunks producer locals f have fanned out: all it has read but the one
\* it is waiting to take ongoing.lock for.
FannedSoFar(f) ==
    IF f.pc \in {"wait_lock_sweep", "wait_lock_fanout"}
    THEN f.chunk_count - 1
    ELSE f.chunk_count

\* The attach (frame g of handler h), with ongoing.lock (l) just acquired.
Attach(h, g, l) ==
    LET s == g.ongoing
        o == [ongoing[s] EXCEPT !.lock = l]
    IN /\ ongoing' = [ongoing EXCEPT ![s] = AttachSession(o, h)]
       /\ fetch' = IF TaskInactive(o) THEN [fetch EXCEPT ![s] = StartFetch] ELSE fetch
       /\ getstream' = [getstream EXCEPT ![h] =
              [g EXCEPT !.need_to_wait = TaskInactive(o),
                        !.read_before = ReadSoFar(fetch'[s]),
                        !.fanned_before = FannedSoFar(fetch'[s]),
                        !.attached_at = now,
                        !.pc = IF TaskInactive(o) THEN "wait_started" ELSE "wait_done"]]

\* PrepareRaises as it would be if the exception were caught and passed over.
PrepareRaisesSwallowed(ok) == FALSE

\* An exception of response.prepare leaves handle_getstream: nothing catches it.
PrepareRaises(ok) == ~ok

\* response.prepare returns (or raises: the client is gone); then the
\* attempt to take ongoing.lock.
ResponsePrepared(h, ok) ==
    /\ getstream[h].pc = "prepare"
    /\ LET g == [getstream[h] EXCEPT !.prepared = ok]
           s == g.ongoing
       IN IF PrepareRaises(ok)
          THEN /\ getstream' = [getstream EXCEPT ![h].pc = "raised"]
               /\ UNCHANGED <<ongoing, fetch>>
          ELSE IF LockFree(ongoing[s].lock)
          THEN Attach(h, g, ongoing[s].lock)
          ELSE /\ ongoing' = [ongoing EXCEPT ![s].lock = Enqueue(@, HandlerTask(h))]
               /\ getstream' = [getstream EXCEPT ![h] =
                                    [g EXCEPT !.pc = "wait_lock_attach"]]
               /\ fetch' = fetch
    /\ UNCHANGED <<statusreq, now, streams, streams_lock, nsess, recv>>

\* A handler queued on ongoing.lock for the attach is handed the lock.
AttachLockAcquired(h) ==
    /\ getstream[h].pc = "wait_lock_attach"
    /\ LockGranted(ongoing[getstream[h].ongoing].lock, HandlerTask(h))
    /\ Attach(h, getstream[h], Dequeue(ongoing[getstream[h].ongoing].lock))
    /\ UNCHANGED <<statusreq, now, streams, streams_lock, nsess, recv>>

\* asyncio.wait_for(ongoing.started.wait(), timeout=10.0) returns.
WaitStartedReturns(h) ==
    /\ getstream[h].pc = "wait_started"
    /\ ongoing[getstream[h].ongoing].started
    /\ getstream' = [getstream EXCEPT ![h].pc = "wait_first_chunk"]
    /\ UNCHANGED <<statusreq, now, streams, streams_lock, nsess, ongoing, fetch, recv>>

\* asyncio.wait_for(ongoing.first_chunk.wait(), timeout=5.0) returns.
WaitFirstChunkReturns(h) ==
    /\ getstream[h].pc = "wait_first_chunk"
    /\ ongoing[getstream[h].ongoing].first_chunk
    /\ getstream' = [getstream EXCEPT ![h].pc = "wait_done"]
    /\ UNCHANGED <<statusreq, now, streams, streams_lock, nsess, ongoing, fetch, recv>>

\* The body of "async with ongoing.lock" of the readiness-timeout path.
TimeoutDetach(h, l) ==
    LET g == getstream[h]
        s == g.ongoing
    IN /\ ongoing' = [ongoing EXCEPT ![s] =
              [@ EXCEPT !.lock = l, !.clients = @ \ {h}]]
       /\ getstream' = [getstream EXCEPT ![h] = Returned(g, 503)]

\* One of the two readiness waits raises asyncio.TimeoutError.
ReadinessTimeout(h) ==
    /\ LET g == getstream[h]
           s == g.ongoing
       IN /\ \/ g.pc = "wait_started" /\ ~ongoing[s].started
             \/ g.pc = "wait_first_chunk" /\ ~ongoing[s].first_chunk
          /\ IF LockFree(ongoing[s].lock)
             THEN TimeoutDetach(h, ongoing[s].lock)
             ELSE /\ ongoing' = [ongoing EXCEPT ![s].lock = Enqueue(@, HandlerTask(h))]
                  /\ getstream' = [getstream EXCEPT ![h].pc = "wait_lock_timeout"]
    /\ UNCHANGED <<statusreq, now, streams, streams_lock, nsess, fetch, recv>>

\* A handler queued on ongoing.lock in the readiness-timeout path gets it.
TimeoutLockAcquired(h) ==
    /\ getstream[h].pc = "wait_lock_timeout"
    /\ LockGranted(ongoing[getstream[h].ongoing].lock, HandlerTask(h))
    /\ TimeoutDetach(h, Dequeue(ongoing[getstream[h].ongoing].lock))
    /\ UNCHANGED <<statusreq, now, streams, streams_lock, nsess, fetch, recv>>

\* The finally block, ongoing.lock acquired: discard the response, pop its
\* last-write entry, then write_eof (its failure is swallowed) and return.
Cleanup(h, l) ==
    LET g == getstream[h]
        s == g.ongoing
    IN /\ ongoing' = [ongoing EXCEPT ![s] =
              [@ EXCEPT !.lock = l, !.clients = @ \ {h},
                        !.client_last_write[h] = NoTime]]
       /\ getstream' = [getstream EXCEPT ![h] =
              IF g.cancelled THEN [g EXCEPT !.pc = "raised"] ELSE Returned(g, 200)]

\* await ongoing.done.wait() returns; then the finally block.
WaitDoneReturns(h) ==
    /\ getstream[h].pc = "wait_done"
    /\ LET s == getstream[h].ongoing
       IN /\ ongoing[s].done
          /\ IF LockFree(ongoing[s].lock)
             THEN Cleanup(h, ongoing[s].lock)
             ELSE /\ ongoing' = [ongoing EXCEPT ![s].lock = Enqueue(@, HandlerTask(h))]
                  /\ getstream' = [getstream EXCEPT ![h].pc = "wait_lock_cleanup"]
    /\ UNCHANGED <<statusreq, now, streams, streams_lock, nsess, fetch, recv>>

\* A handler queued on ongoing.lock in the finally block gets it.
CleanupLockAcquired(h) ==
    /\ getstream[h].pc = "wait_lock_cleanup"
    /\ LockGranted(ongoing[getstream[h].ongoing].lock, HandlerTask(h))
    /\ Cleanup(h, Dequeue(ongoing[getstream[h].ongoing].lock))
    /\ UNCHANGED <<statusreq, now, streams, streams_lock, nsess, fetch, recv>>

\* Lock l once the waiter t, cancelled, has left Lock.acquire(): acquire
\* removes its future from the waiters and, the lock not being locked, wakes
\* the next one.
Withdraw(l, t) == [l EXCEPT !.waiters = SelectSeq(@, LAMBDA u : u # t)]

\* The task of handler h is cancelled: CancelledError, which is no Exception,
\* is raised by the await the handler is suspended at.
Cancelled(h) ==
    LET g == [getstream[h] EXCEPT !.cancelled = TRUE]
        s == g.ongoing
        raised == [g EXCEPT !.pc = "raised"]
    IN /\ ~getstream[h].cancelled
       /\ CASE g.pc = "wait_streams_lock" ->
                 \* acquire of "async with self.streams_lock" raises
                 /\ streams_lock' = Withdraw(streams_lock, HandlerTask(h))
                 /\ getstream' = [getstream EXCEPT ![h] = raised]
                 /\ ongoing' = ongoing
            [] g.pc = "open" ->
                 \* "except Exception" lets it pass; the async with exits
                 /\ streams_lock' = Release(streams_lock)
                 /\ getstream' = [getstream EXCEPT ![h] = raised]
                 /\ ongoing' = ongoing
            [] g.pc = "prepare" ->
                 /\ getstream' = [getstream EXCEPT ![h] = raised]
                 /\ UNCHANGED <<streams_lock, ongoing>>
            [] g.pc \in {"wait_lock_attach", "wait_lock_timeout", "wait_lock_cleanup"} ->
                 \* acquire of "async with ongoing.lock" raises
                 /\ ongoing' = [ongoing EXCEPT ![s].lock = Withdraw(@, HandlerTask(h))]
                 /\ getstream' = [getstream EXCEPT ![h] = raised]
                 /\ streams_lock' = streams_lock
            [] g.pc \in {"wait_started", "wait_first_chunk"} ->
                 \* "except asyncio.TimeoutError" lets it pass, and the
                 \* readiness waits are outside the try ... finally
                 /\ getstream' = [getstream EXCEPT ![h] = raised]
                 /\ UNCHANGED <<streams_lock, ongoing>>
            [] g.pc = "wait_done" ->
                 \* "except Exception" lets it pass; the finally block runs
                 /\ streams_lock' = streams_lock
                 /\ IF LockFree(ongoing[s].lock)
                    THEN /\ ongoing' = [ongoing EXCEPT ![s] =
                                [@ EXCEPT !.clients = @ \ {h},
                                          !.client_last_write[h] = NoTime]]
                         /\ getstream' = [getstream EXCEPT ![h] = raised]
                    ELSE /\ ongoing' = [ongoing EXCEPT ![s].lock =
                                            Enqueue(@, HandlerTask(h))]
                         /\ getstream' = [getstream EXCEPT ![h] =
                                [g EXCEPT !.pc = "wait_lock_cleanup"]]
            [] OTHER -> FALSE
       /\ UNCHANGED <<statusreq, now, streams, nsess, fetch, recv>>

\* ------------------------------------------------- _start_acestream_fetch
\* The producer of session s is described by the pair of the session record
\* o and its own locals f; the operators below map such a pair to the pair
\* at the next await.
Pair(o, f) == [o |-> o, f |-> f]

\* client_last_write.get(id(client_response), 0)
LastWrite(o, c) ==
    IF o.client_last_write[c] = NoTime THEN 0 ELSE o.client_last_write[c]

\* client_last_write with the entries of the clients in gone popped.
Popped(o, gone) ==
    [c \in Handlers |-> IF c \in gone THEN NoTime ELSE o.client_last_write[c]]

\* Teardown as it would be if done were set without the stop request.
TeardownWithoutStop(o, f) ==
    Pair([o EXCEPT !.clients = {}], [NoFetch EXCEPT !.pc = "stop"])

\* The finally block up to the await of _close_stream, ongoing.lock acquired:
\* write_eof on every remaining client, clients.clear(), then dispatch stop.
Teardown(o, f) ==
    Pair([o EXCEPT !.clients = {}, !.stops = @ + 1],
         [NoFetch EXCEPT !.pc = "stop"])

\* The producer leaves the try block and reaches "async with ongoing.lock"
\* of the finally block.
EnterTeardown(o, f, s) ==
    IF LockFree(o.lock)
    THEN Teardown(o, f)
    ELSE Pair([o EXCEPT !.lock = Enqueue(@, ProducerTask(s))],
              [f EXCEPT !.pc = "wait_lock_teardown"])

\* Leaving the fan-out block: release ongoing.lock, then break when no
\* client is left, else await the next chunk.
AfterFanout(o, f, s) ==
    LET o1 == [o EXCEPT !.lock = Release(@)]
    IN IF o1.clients = {}
       THEN EnterTeardown(o1, f, s)
       ELSE Pair(o1, [f EXCEPT !.pc = "read", !.todo = {}, !.dead_clients = {},
                               !.current_time = 0, !.write_since = 0])

\* RemoveDead as it would be if dead clients were left in the set.
RemoveDeadKeepsAll(clients, dead) == clients

\* The clients left once the dead ones are removed.
RemoveDead(clients, dead) == clients \ dead

\* The end of the fan-out block, after the last write: remove dead clients.
FinishFanout(o, f, s) ==
    AfterFanout([o EXCEPT !.clients = RemoveDead(@, f.dead_clients),
                          !.client_last_write = Popped(o, f.dead_clients)],
                f, s)

\* The start of the fan-out block, ongoing.lock acquired: snapshot the
\* clients and await the first write.
Fanout(o, f, s) ==
    LET f1 == [f EXCEPT !.current_time = now, !.todo = o.clients,
                        !.dead_clients = {}]
    IN IF o.clients = {}
       THEN AfterFanout(o, f1, s)
       ELSE Pair([o EXCEPT !.lock = Hold(@, ProducerTask(s))],
                 [f1 EXCEPT !.pc = "write", !.write_since = now])

\* The producer reaches "async with ongoing.lock" of the fan-out block.
EnterFanout(o, f, s) ==
    IF LockFree(o.lock)
    THEN Fanout(o, f, s)
    ELSE Pair([o EXCEPT !.lock = Enqueue(@, ProducerTask(s))],
              [f EXCEPT !.pc = "wait_lock_fanout"])

\* The clients the stale sweep removes.
StaleClients(o, f) ==
    {c \in o.clients : f.current_time - LastWrite(o, c) > StaleAfter}

\* The stale sweep, ongoing.lock acquired: discard the stale clients; with
\* any, await write_eof on them while holding the lock.
Sweep(o, f, s) ==
    LET stale == StaleClients(o, f)
        o1 == [o EXCEPT !.clients = @ \ stale,
                        !.client_last_write = Popped(o, stale)]
    IN IF stale = {}
       THEN EnterFanout(o1, f, s)
       ELSE Pair([o1 EXCEPT !.lock = Hold(@, ProducerTask(s))],
                 [f EXCEPT !.pc = "sweep_eof"])

\* The producer reaches "async with ongoing.lock" of the stale sweep.
EnterSweep(o, f, s) ==
    IF LockFree(o.lock)
    THEN Sweep(o, f, s)
    ELSE Pair([o EXCEPT !.lock = Enqueue(@, ProducerTask(s))],
              [f EXCEPT !.pc = "wait_lock_sweep"])

\* if current_time - last_cleanup > 15
SweepDue(f, t) == t - f.last_cleanup > SweepInterval

\* One iteration of the read loop from the arrival of a chunk.
OnChunk(o, f, s) ==
    LET f1 == [f EXCEPT !.chunk_count = @ + 1, !.current_time = now]
    IN IF SweepDue(f, now)
       THEN EnterSweep(o, [f1 EXCEPT !.last_cleanup = now], s)
       ELSE EnterFanout(o, f1, s)

\* The producer's step replaces the pair of session s by p.
Becomes(s, p) ==
    /\ ongoing' = [ongoing EXCEPT ![s] = p.o]
    /\ fetch' = [fetch EXCEPT ![s] = p.f]

\* SetsStarted as it would be if only the successful connect signalled.
SetsStartedOnSuccess(outcome) == outcome = "ok"

\* ongoing.started.set() follows every way the connect can end: status 200
\* (line 154), another status (150), TimeoutError (228), Exception (231).
SetsStarted(outcome) == outcome \in ConnectOutcomes

\* self.session.get(playback_url) answers, fails or times out.
ConnectReturns(s, outcome) ==
    /\ fetch[s].pc = "connect"
    /\ LET o == [ongoing[s] EXCEPT !.started = @ \/ SetsStarted(outcome)]
           f == fetch[s]
       IN IF outcome = "ok"
          THEN Becomes(s, Pair(o, [f EXCEPT !.pc = "read", !.last_cleanup = now]))
          ELSE Becomes(s, EnterTeardown(o, f, s))
    /\ UNCHANGED <<statusreq, now, streams, streams_lock, nsess, getstream, recv>>

\* iter_chunked yields a chunk, ends, times out or raises.  empty_timeout is
\* a configuration value: the read may time out at any instant.
ReadReturns(s, outcome) ==
    /\ fetch[s].pc = "read"
    /\ outcome = "chunk" => fetch[s].chunk_count < MaxChunks
    /\ IF outcome = "chunk"
       THEN Becomes(s, OnChunk(ongoing[s], fetch[s], s))
       ELSE Becomes(s, EnterTeardown(ongoing[s], fetch[s], s))
    /\ UNCHANGED <<statusreq, now, streams, streams_lock, nsess, getstream, recv>>

\* The producer, queued on ongoing.lock for the stale sweep, is handed it.
SweepLockAcquired(s) ==
    /\ fetch[s].pc = "wait_lock_sweep"
    /\ LockGranted(ongoing[s].lock, ProducerTask(s))
    /\ Becomes(s, Sweep([ongoing[s] EXCEPT !.lock = Dequeue(@)], fetch[s], s))
    /\ UNCHANGED <<statusreq, now, streams, streams_lock, nsess, getstream, recv>>

\* The producer, queued on ongoing.lock for the fan-out, is handed it.
FanoutLockAcquired(s) ==
    /\ fetch[s].pc = "wait_lock_fanout"
    /\ LockGranted(ongoing[s].lock, ProducerTask(s))
    /\ Becomes(s, Fanout([ongoing[s] EXCEPT !.lock = Dequeue(@)], fetch[s], s))
    /\ UNCHANGED <<statusreq, now, streams, streams_lock, nsess, getstream, recv>>

\* The producer, queued on ongoing.lock in the finally block, is handed it.
TeardownLockAcquired(s) ==
    /\ fetch[s].pc = "wait_lock_teardown"
    /\ LockGranted(ongoing[s].lock, ProducerTask(s))
    /\ Becomes(s, Teardown([ongoing[s] EXCEPT !.lock = Dequeue(@)], fetch[s]))
    /\ UNCHANGED <<statusreq, now, streams, streams_lock, nsess, getstream, recv>>

\* write_eof on the stale clients is over: leave the sweep block.
SweepEofReturns(s) ==
    /\ fetch[s].pc = "sweep_eof"
    /\ Becomes(s, EnterFanout([ongoing[s] EXCEPT !.lock = Release(@)], fetch[s], s))
    /\ UNCHANGED <<statusreq, now, streams, streams_lock, nsess, getstream, recv>>

\* Chunk as it would be if the producer kept writing the chunk it read first.
ChunkReadFirst(s, o, f) == <<s, o.spawns, 1>>

\* The identity of a chunk: the producer task that read it and its number.
Chunk(s, o, f) == <<s, o.spawns, f.chunk_count>>

\* client_response.write(chunk) returns (ok) or raises, for client c.
WriteReturns(s, c, ok) ==
    /\ fetch[s].pc = "write"
    /\ c \in fetch[s].todo
    /\ LET o == IF ok
                THEN [ongoing[s] EXCEPT
                         !.client_last_write[c] = fetch[s].current_time,
                         !.first_chunk = @ \/ fetch[s].chunk_count = 1]
                ELSE ongoing[s]
           f == [fetch[s] EXCEPT
                    !.todo = @ \ {c},
                    !.dead_clients = IF ok THEN @ ELSE @ \cup {c},
                    !.write_since = now]
       IN /\ IF f.todo = {}
             THEN Becomes(s, FinishFanout(o, f, s))
             ELSE Becomes(s, Pair(o, f))
          /\ recv' = IF ok
                     THEN [recv EXCEPT ![c] = Append(@, Chunk(s, ongoing[s], fetch[s]))]
                     ELSE recv
    /\ UNCHANGED <<statusreq, now, streams, streams_lock, nsess, getstream>>

\* RemoveEntry as it would be if the producer left its entry in the registry.
RemoveEntryKeeps(o) == streams

\* The registry after the producer of session record o removed its entry:
\* if ongoing.stream_id in self.streams: del self.streams[ongoing.stream_id]
RemoveEntry(o) == [streams EXCEPT ![o.stream_id] = 0]

\* The end of the finally block with streams_lock acquired; the task is over.
Exit(s, o, l) ==
    /\ streams' = RemoveEntry(o)
    /\ streams_lock' = l
    /\ Becomes(s, Pair([o EXCEPT !.task = "done"], [NoFetch EXCEPT !.pc = "exited"]))

\* StopRaises as it would be if _close_stream let an exception of the
\* request through.
StopRaisesOnException(outcome) == outcome = "exception"

\* _close_stream raises: never, its try block catches every Exception and a
\* status other than 200 or an error field is only logged.
StopRaises(outcome) == FALSE

\* SetDone as it would be if the finally block left done unset.
SetDoneSkipped(o) == o

\* ongoing.done.set() on session record o.
SetDone(o) == [o EXCEPT !.done = TRUE]

\* _close_stream returns: done.set(), then the attempt to take streams_lock.
\* stop_failed keeps, while the producer waits for streams_lock, whether the
\* stop request failed.  (An exception out of _close_stream would leave the
\* finally block and end the task at once.)
CloseStreamReturns(s, outcome) ==
    /\ fetch[s].pc = "stop"
    /\ LET o == SetDone(ongoing[s])
       IN IF StopRaises(outcome)
          THEN /\ Becomes(s, Pair([ongoing[s] EXCEPT !.task = "done"],
                                  [NoFetch EXCEPT !.pc = "exited"]))
               /\ UNCHANGED <<streams, streams_lock>>
          ELSE IF LockFree(streams_lock)
          THEN Exit(s, o, streams_lock)
          ELSE /\ streams_lock' = Enqueue(streams_lock, ProducerTask(s))
               /\ Becomes(s, Pair(o, [fetch[s] EXCEPT !.pc = "wait_streams_lock",
                                                      !.stop_failed = outcome # "ok"]))
               /\ streams' = streams
    /\ UNCHANGED <<statusreq, now, nsess, getstream, recv>>

\* The producer, queued on streams_lock, is handed the lock.
RemoveLockAcquired(s) ==
    /\ fetch[s].pc = "wait_streams_lock"
    /\ LockGranted(streams_lock, ProducerTask(s))
    /\ Exit(s, ongoing[s], Dequeue(streams_lock))
    /\ UNCHANGED <<statusreq, now, nsess, getstream, recv>>

\* ---------------------------------------------------------- handle_status
\* handle_status returns: the answer is kept in its frame.
Answered(q, code, nstreams, nclients) ==
    [q EXCEPT !.pc = "returned", !.code = code, !.streams = nstreams,
              !.clients = nclients]

\* StatusOfSession as it would be if the return left streams_lock locked.
StatusOfSessionKeepsLock(q, s, sl, ol) ==
    /\ statusreq' = Answered(q, 200, NoCount, Cardinality(ongoing[s].clients))
    /\ streams_lock' = Hold(sl, StatusTask)
    /\ ongoing' = [ongoing EXCEPT ![s].lock = ol]

\* The body of "async with ongoing.lock" of handle_status on session s, and
\* the return that leaves both locks; sl and ol are streams_lock and
\* ongoing.lock as they are once handle_status has left them.
StatusOfSession(q, s, sl, ol) ==
    /\ statusreq' = Answered(q, 200, NoCount, Cardinality(ongoing[s].clients))
    /\ streams_lock' = sl
    /\ ongoing' = [ongoing EXCEPT ![s].lock = ol]

\* StreamCount as it would be if it counted every session ever created.
StreamCountEverCreated == nsess

\* len(self.streams)
StreamCount == Cardinality({k \in Keys : streams[k] # 0})

\* The body of "async with self.streams_lock" of handle_status up to its
\* first await, with streams_lock (l) just acquired.
StatusLocked(q, l) ==
    IF q.stream_id = "" /\ q.infohash = ""
    THEN \* global status: len(self.streams)
         /\ statusreq' = Answered(q, 200, StreamCount, NoCount)
         /\ streams_lock' = l
         /\ ongoing' = ongoing
    ELSE LET key == KeyOf(q.stream_id, q.infohash)
             s == streams[key]
         IN IF s = 0
            THEN /\ statusreq' = Answered(q, 404, NoCount, NoCount)
                 /\ streams_lock' = l
                 /\ ongoing' = ongoing
            ELSE IF LockFree(ongoing[s].lock)
            THEN StatusOfSession([q EXCEPT !.ongoing = s], s, l, ongoing[s].lock)
            ELSE \* wait for ongoing.lock, holding streams_lock
                 /\ statusreq' = [q EXCEPT !.pc = "wait_lock", !.ongoing = s]
                 /\ streams_lock' = Hold(l, StatusTask)
                 /\ ongoing' = [ongoing EXCEPT ![s].lock = Enqueue(@, StatusTask)]

\* The status request arrives: the attempt to take streams_lock.
HandleStatus(id, infohash) ==
    /\ statusreq.pc = "idle"
    /\ LET q == [NoStatus EXCEPT !.stream_id = id, !.infohash = infohash]
       IN IF LockFree(streams_lock)
          THEN StatusLocked(q, streams_lock)
          ELSE /\ statusreq' = [q EXCEPT !.pc = "wait_streams_lock"]
               /\ streams_lock' = Enqueue(streams_lock, StatusTask)
               /\ ongoing' = ongoing
    /\ UNCHANGED <<now, streams, nsess, fetch, getstream, recv>>

\* handle_status, queued on streams_lock, is handed the lock.
StatusStreamsLockAcquired ==
    /\ statusreq.pc = "wait_streams_lock"
    /\ LockGranted(streams_lock, StatusTask)
    /\ StatusLocked(statusreq, Dequeue(streams_lock))
    /\ UNCHANGED <<now, streams, nsess, fetch, getstream, recv>>

\* handle_status, queued on ongoing.lock, is handed the lock.
StatusLockAcquired ==
    /\ statusreq.pc = "wait_lock"
    /\ LockGranted(ongoing[statusreq.ongoing].lock, StatusTask)
    /\ StatusOfSession(statusreq, statusreq.ongoing, Release(streams_lock),
                       Dequeue(ongoing[statusreq.ongoing].lock))
    /\ UNCHANGED <<now, streams, nsess, fetch, getstream, recv>>

\* ------------------------------------------------------------------ clock
\* Time passes.  Only producer tasks read the clock, and the critical
\* sections that can keep a producer waiting for ongoing.lock contain no
\* await, so time is counted while some producer awaits I/O.
AwaitsIO(f) == f.pc \in {"connect", "read", "write", "sweep_eof"}

Tick ==
    /\ now + TickLen <= MaxTime
    /\ \E s \in Sessions : AwaitsIO(fetch[s])
    /\ now' = now + TickLen
    /\ UNCHANGED <<streams, streams_lock, nsess, ongoing, fetch, getstream,
                   recv, statusreq>>

\* ---------------------------------------------------------- specification
\* A request with any combination of the query parameters arrives.
Arrival(h) ==
    \E id \in IdValues, infohash \in InfohashValues, pid \in BOOLEAN :
        HandleGetstream(h, id, infohash, pid)

\* A handler that was called resumes at one of its awaits.
HandlerProgress(h) ==
    \/ GetstreamLockAcquired(h)
    \/ \E outcome \in OpenOutcomes : FetchStreamInfoReturns(h, outcome)
    \/ \E ok \in BOOLEAN : ResponsePrepared(h, ok)
    \/ AttachLockAcquired(h)
    \/ WaitStartedReturns(h)
    \/ WaitFirstChunkReturns(h)
    \/ ReadinessTimeout(h)
    \/ TimeoutLockAcquired(h)
    \/ WaitDoneReturns(h)
    \/ CleanupLockAcquired(h)

ProducerStep(s) ==
    \/ \E outcome \in ConnectOutcomes : ConnectReturns(s, outcome)
    \/ \E outcome \in ReadOutcomes : ReadReturns(s, outcome)
    \/ FanoutLockAcquired(s)
    \/ TeardownLockAcquired(s)
    \/ \E c \in Handlers, ok \in BOOLEAN : WriteReturns(s, c, ok)
    \/ \E outcome \in StopOutcomes : CloseStreamReturns(s, outcome)
    \/ RemoveLockAcquired(s)

SweepStep(s) ==
    \/ SweepLockAcquired(s)
    \/ SweepEofReturns(s)

\* Two requests, with time passing.
Next ==
    \/ \E h \in 1..MaxRequests : Arrival(h)
    \/ \E h \in 1..MaxRequests : HandlerProgress(h)
    \/ \E s \in Sessions : ProducerStep(s)
    \/ \E s \in Sessions : SweepStep(s)
    \/ Tick

Spec == Init /\ [][Next]_vars

\* Two requests for the same id, with time passing.
NextFair ==
    \/ \E h \in 1..MaxRequests : HandleGetstream(h, "A", "", FALSE)
    \/ \E h \in 1..MaxRequests : HandlerProgress(h)
    \/ \E s \in Sessions : ProducerStep(s)
    \/ \E s \in Sessions : SweepStep(s)
    \/ Tick

\* The event loop runs every task that is ready, and every request to the
\* middleware and every write to a client returns, raises or times out.
FairSpec ==
    /\ Init
    /\ [][NextFair]_vars
    /\ \A s \in Sessions : WF_vars(ProducerStep(s) \/ SweepStep(s))
    /\ \A h \in 1..MaxRequests : WF_vars(HandlerProgress(h))

\* Two requests for the same id whose tasks may be cancelled, with time
\* passing.
NextCancel ==
    \/ NextFair
    \/ \E h \in 1..MaxRequests : Cancelled(h)

SpecCancel == Init /\ [][NextCancel]_vars

\* The status request arrives, with any combination of id and infohash, or
\* resumes.
StatusStep ==
    \/ \E id \in IdValues, infohash \in InfohashValues : HandleStatus(id, infohash)
    \/ StatusStreamsLockAcquired
    \/ StatusLockAcquired

\* Two requests for the same id and one status request, with time passing.
NextStatus ==
    \/ NextFair
    \/ StatusStep

SpecStatus == Init /\ [][NextStatus]_vars

\* NumHandlers requests for the same id, of which at most MaxInFlight are in
\* progress at once, in the runs in which no sweep period elapses.
NextThree ==
    \/ \E h \in Handlers : HandleGetstream(h, "A", "", FALSE)
    \/ \E h \in Handlers : HandlerProgress(h)
    \/ \E s \in Sessions : ProducerStep(s)

SpecThree == Init /\ [][NextThree]_vars

\* ===================================================================== C1
\* The handlers whose open call (_fetch_stream_info) is in flight.
Opening == {h \in Handlers : getstream[h].pc = "open"}

\* At every instant at most one open call is in flight, its caller holds
\* streams_lock, and no session is registered for the key it opens; a
\* registered session is registered under its own key.
DedupState ==
    /\ Cardinality(Opening) <= 1
    /\ \A h \in Opening : /\ streams_lock.holder = HandlerTask(h)
                          /\ streams[getstream[h].key] = 0
    /\ \A k \in Keys : streams[k] # 0 => ongoing[streams[k]].stream_id = k

\* Task t is queued on streams_lock in front of task u.
Ahead(t, u) ==
    \E i, j \in 1..Len(streams_lock.waiters) :
        /\ i < j
        /\ streams_lock.waiters[i] = t
        /\ streams_lock.waiters[j] = u

\* Handler h waits for streams_lock, a session is registered for its key and
\* no producer of a session of that key is queued in front of it: h arrived
\* before any teardown of the key asked for the lock.
Racing(h) ==
    /\ getstream[h].pc = "wait_streams_lock"
    /\ streams[getstream[h].key] # 0
    /\ \A s \in Sessions : ongoing[s].stream_id = getstream[h].key
                           => ~Ahead(ProducerTask(s), HandlerTask(h))

\* A racing handler finds the registered session when it gets the lock: it
\* issues no open of its own.
DedupStep ==
    \A h \in Handlers :
        Racing(h)
        => \/ /\ getstream'[h].pc = "wait_streams_lock"
              /\ streams'[getstream[h].key] = streams[getstream[h].key]
           \/ /\ getstream'[h].pc = AfterLookup
              /\ getstream'[h].ongoing = streams[getstream[h].key]

\* C1: under any interleaving of concurrent handle_getstream requests at most
\* one open call is in flight, made while holding streams_lock, the registry
\* holds at most one session per key, and of two simultaneous requests for an
\* unregistered key the second reuses the session the first one registered.
C1_Dedup == []DedupState /\ [][DedupStep]_vars

\* Two requests for the same key raced: the open of the first has just
\* registered a session while the second still waits for streams_lock.
C1_Witness ==
    \E h1, h2 \in Handlers :
        /\ h1 # h2
        /\ Racing(h2)
        /\ getstream[h1].pc = AfterLookup
        /\ getstream[h1].key = getstream[h2].key
        /\ getstream[h1].ongoing = streams[getstream[h2].key]

\* ===================================================================== C2
\* The producer task of session s holds, or is opening, an upstream fetch.
Fetching(s) ==
    fetch[s].pc \in {"connect", "read", "wait_lock_sweep", "sweep_eof",
                     "wait_lock_fanout", "write"}

\* C2: for every content key at most one producer loop is fetching at any
\* instant, counting every OngoingStream ever constructed for the key,
\* registered or not.
C2_OneProducerPerKey ==
    \A s1, s2 \in Sessions :
        (s1 # s2 /\ Fetching(s1) /\ Fetching(s2))
        => ongoing[s1].stream_id # ongoing[s2].stream_id

\* ===================================================================== C3
\* C3: over the lifetime of an OngoingStream stop (_close_stream) is
\* dispatched at most once, and exactly once by the time done is set.
C3_OneStop ==
    \A s \in Sessions :
        /\ ongoing[s].stops <= 1
        /\ ongoing[s].done => ongoing[s].stops = 1

\* ===================================================================== C4
\* C4: whenever the done signal of an OngoingStream is set, the registry does
\* not map its key to it.
C4_RegistryCleanup ==
    \A s \in Sessions :
        ongoing[s].done => streams[ongoing[s].stream_id] # s

\* ===================================================================== C5
\* q is a run of consecutive chunks of one upstream response.
Contiguous(q) ==
    \A i \in 1..(Len(q) - 1) :
        /\ q[i + 1][1] = q[i][1]
        /\ q[i + 1][2] = q[i][2]
        /\ q[i + 1][3] = q[i][3] + 1

\* C5: the chunks successfully written to a subscriber are a contiguous run
\* of the chunks its producer read from upstream, in upstream order: none is
\* duplicated, skipped or reordered.
C5_OrderPreserved == \A h \in Handlers : Contiguous(recv[h])

\* A subscriber that received every chunk of a response of MaxChunks chunks.
C5_Witness ==
    \E h \in Handlers :
        /\ Len(recv[h]) = MaxChunks
        /\ recv[h][1][3] = 1

\* ===================================================================== C6
\* The responses the producer of session s may write to.
Writable(s) == ongoing[s].clients \cup fetch[s].todo

\* C6: every response in a clients set (and every response the producer is
\* about to write to) has completed response.prepare.
C6_NoWriteBeforePrepare ==
    \A s \in Sessions : \A h \in Writable(s) : getstream[h].prepared

\* The producer is in the middle of a fan-out over two prepared responses.
C6_Witness ==
    \E s \in Sessions :
        /\ fetch[s].pc = "write"
        /\ Cardinality(fetch[s].todo) = 2

\* ===================================================================== C7
\* C7: a subscriber that stops accepting data (a write to it neither
\* completes nor fails) never holds the producer for more than 30 s: with
\* other subscribers attached, the producer does not stay in one write for
\* longer than the stale threshold.
C7_NeverHeldBySlowSubscriber ==
    \A s \in Sessions :
        (fetch[s].pc = "write" /\ Cardinality(ongoing[s].clients) >= 2)
        => now - fetch[s].write_since <= StaleAfter

\* ===================================================================== C8
\* Handler h made an open call that failed.
OpenFailed(h) == getstream[h].open_outcome \notin {"", "ok"}

\* A handler whose open failed has answered 500 and holds no session.
OpenFailureState ==
    \A h \in Handlers :
        OpenFailed(h) => /\ getstream[h].pc = "returned"
                         /\ getstream[h].status = 500
                         /\ getstream[h].ongoing = 0
                         /\ streams_lock.holder # HandlerTask(h)

\* The step in which an open fails changes neither the registry nor any
\* session nor any producer, leaves the key unregistered and releases
\* streams_lock; and whoever takes streams_lock for an unregistered key
\* issues an open.
OpenFailureStep ==
    \A h \in Handlers :
        /\ (~OpenFailed(h) /\ OpenFailed(h)')
           => /\ getstream[h].pc = "open"
              /\ UNCHANGED <<streams, nsess, ongoing, fetch>>
              /\ streams[getstream[h].key] = 0
              /\ streams_lock'.holder = NoTask
        /\ (getstream[h].pc \in {"idle", "wait_streams_lock"}
            /\ getstream'[h].pc \in {"open", AfterLookup})
           => (getstream'[h].pc = "open" <=> streams[getstream'[h].key] = 0)

\* C8: when open fails for a key with no registered session the handler
\* answers 500, the registry, the subscriber sets and the producers are
\* unchanged, stop is not dispatched, streams_lock is released and a later
\* request for the key issues a fresh open.
C8_OpenFailure == []OpenFailureState /\ [][OpenFailureStep]_vars

\* After a failed open for a key, a later request for it is inside a
\* fresh open.
C8_Witness ==
    \E h1, h2 \in Handlers :
        /\ OpenFailed(h1)
        /\ getstream[h2].pc = "open"
        /\ getstream[h2].key = getstream[h1].key
        /\ \A s \in Sessions : ongoing[s].stops = 0

\* ===================================================================== C9
\* Both id and infohash supplied, or neither, or a pid parameter present.
BadRequest(g) ==
    \/ g.stream_id # "" /\ g.infohash # ""
    \/ g.stream_id = "" /\ g.infohash = ""
    \/ g.has_pid

\* A called handler has answered 400 exactly when its request was bad; the
\* key of any other request is the id or the infohash it supplied.
BadRequestState ==
    \A h \in Handlers :
        getstream[h].pc # "idle"
        => /\ getstream[h].status = 400 <=> BadRequest(getstream[h])
           /\ ~BadRequest(getstream[h])
              => /\ getstream[h].key # NoKey
                 /\ getstream[h].key \in {getstream[h].stream_id, getstream[h].infohash}
           /\ BadRequest(getstream[h])
              => getstream[h].pc = "returned" /\ getstream[h].open_outcome = ""

\* The step that answers 400 changes nothing but the handler's own frame.
BadRequestStep ==
    \A h \in Handlers :
        (getstream[h].pc = "idle" /\ getstream'[h].status = 400)
        => UNCHANGED <<now, streams, streams_lock, nsess, ongoing, fetch, recv>>

\* C9: handle_getstream answers 400 exactly when both id and infohash are
\* supplied, or neither, or a pid is present; then no open is issued and
\* registry, subscriber sets and producers are unchanged; for every other
\* request the key is the supplied id or infohash.
C9_BadRequest == []BadRequestState /\ [][BadRequestStep]_vars

\* One request was refused for its pid while a well-formed one for the same
\* id is being served.
C9_Witness ==
    \E h1, h2 \in Handlers :
        /\ getstream[h1].status = 400
        /\ getstream[h1].has_pid
        /\ getstream[h1].stream_id = "A"
        /\ getstream[h1].infohash = ""
        /\ getstream[h2].key = "A"
        /\ getstream[h2].pc = "wait_done"

\* ==================================================================== C10
\* Session s is over: its producer task has finished, done is set and the
\* registry holds no entry for it.
Finished(s) ==
    /\ ongoing[s].done
    /\ ongoing[s].task = "done"
    /\ streams[ongoing[s].stream_id] # s

\* The producer leaves a fan-out for the next read exactly when a client is
\* left, and leaves a read that gave no chunk for the teardown.
LeavesReadLoop ==
    \A s \in Sessions :
        /\ (fetch[s].pc = "write" /\ fetch'[s].pc # "write")
           => (fetch'[s].pc = "read" <=> ongoing'[s].clients # {})
        /\ (fetch[s].pc = "read" /\ fetch'[s].chunk_count = fetch[s].chunk_count
            /\ fetch'[s] # fetch[s])
           => fetch'[s].pc \in {"wait_lock_teardown", "stop"}

\* C10: once a producer has been spawned for a session, under fairness the
\* session finishes: the producer leaves the read loop when a fan-out leaves
\* no subscriber and on end-of-stream or timeout, teardown runs, done is set
\* and the registry eventually holds no entry for the session.
C10_SessionTerminates ==
    /\ [][LeavesReadLoop]_vars
    /\ \A s \in Sessions : (ongoing[s].spawns > 0) ~> Finished(s)

\* A session that delivered a chunk is over, with stop dispatched once.
C10_Witness ==
    \E s \in Sessions, h \in Handlers :
        /\ Finished(s)
        /\ ongoing[s].stops = 1
        /\ recv[h] # <<>>
        /\ recv[h][1][1] = s

\* ==================================================================== C11
\* The number, in its producer's count, of the first chunk written to h.
FirstReceived(h) == recv[h][1][3]

\* C11 (as stated): the first chunk written to a subscriber is one the
\* producer read from upstream after the subscriber joined the clients set.
C11_FirstChunkReadAfterAttach ==
    \A h \in Handlers :
        recv[h] # <<>> => FirstReceived(h) > getstream[h].read_before

\* C11 (amended): a subscriber receives none of the chunks the producer had
\* fanned out when it joined the clients set; the first chunk written to it
\* is one whose fan-out began after it joined.
C11_NoReplay ==
    \A h \in Handlers :
        recv[h] # <<>> => FirstReceived(h) > getstream[h].fanned_before

\* A subscriber that joined after two chunks were fanned out got the third.
C11_Witness ==
    \E h \in Handlers :
        /\ getstream[h].fanned_before = 2
        /\ recv[h] # <<>>
        /\ FirstReceived(h) = 3

\* ==================================================================== C12
\* Session record o with its lock left out.
WithoutLock(o) == [o EXCEPT !.lock = [holder |-> NoTask, waiters |-> <<>>]]

\* A step of handle_status changes nothing but its own frame and the locks.
StatusFrame ==
    statusreq' # statusreq
    => /\ UNCHANGED <<now, streams, nsess, fetch, getstream, recv>>
       /\ \A s \in Sessions : WithoutLock(ongoing'[s]) = WithoutLock(ongoing[s])

\* The answer handle_status returns with is the one the registry and the
\* session call for at that instant.
StatusAnswer ==
    (statusreq' # statusreq /\ statusreq'.pc = "returned")
    => LET q == statusreq'
           key == IF q.stream_id # "" THEN q.stream_id ELSE q.infohash
       IN IF q.stream_id = "" /\ q.infohash = ""
          THEN /\ q.code = 200
               /\ q.streams = Cardinality({k \in Keys : streams[k] # 0})
          ELSE /\ q.code = 404 <=> streams[key] = 0
               /\ q.code # 404
                  => /\ q.code = 200
                     /\ q.clients = Cardinality(ongoing[streams[key]].clients)

\* C12: handle_status changes no state; without id and infohash it reports
\* the number of sessions in the registry, with a key the size of the
\* registered session's clients set, and 404 exactly when the key is not
\* registered.
C12_Status == [][StatusFrame /\ StatusAnswer]_vars

\* handle_status reported two subscribers of the session of id A.
C12_Witness ==
    /\ statusreq.pc = "returned"
    /\ statusreq.stream_id = "A"
    /\ statusreq.code = 200
    /\ statusreq.clients = 2

\* ==================================================================== C13
\* The producer of session s finishes its teardown in this step.
Exits(s) == fetch[s].pc # "exited" /\ fetch'[s].pc = "exited"

\* The producer that finishes removes the entry of its key exactly when the
\* entry maps to its own session, and touches no other entry.
IdentityGuardedStep ==
    \A s \in Sessions :
        Exits(s) => \A k \in Keys :
                        streams'[k] = IF streams[k] = s THEN 0 ELSE streams[k]

\* C13: a producer's teardown removes the registry entry of its key if and
\* only if the entry still maps to the producer's own OngoingStream; it
\* never deletes an entry that maps to a newer session for the key.
C13_IdentityGuardedRemoval == [][IdentityGuardedStep]_vars

\* ==================================================================== C14
\* Session s is finished or finishing: its teardown has cleared the clients
\* set (and dispatched stop), or done is set.
Finishing(s) == ongoing[s].done \/ ongoing[s].stops > 0

\* A handler that takes a session from the registry takes one that is not
\* finishing, and a response is added only to the clients of such a session.
JoinsLiveSession ==
    \A h \in Handlers, s \in Sessions :
        /\ (getstream[h].ongoing = 0 /\ getstream'[h].ongoing = s)
           => ~Finishing(s)'
        /\ (h \notin ongoing[s].clients /\ h \in ongoing'[s].clients)
           => ~Finishing(s)

\* C14: handle_getstream reuses the registered session only if it is not
\* finished, and otherwise opens afresh; no subscriber is ever added to an
\* OngoingStream whose teardown has cleared the clients set or whose done is
\* set.
C14_AttachNeverJoinsFinished == [][JoinsLiveSession]_vars

\* ==================================================================== C15
\* C15: whenever done is set for an OngoingStream, its clients set is empty.
C15_DoneImpliesNoClients ==
    \A s \in Sessions : ongoing[s].done => ongoing[s].clients = {}

\* ==================================================================== C16
\* done is set only for a session whose stop has been dispatched.
StopBeforeDone == \A s \in Sessions : ongoing[s].done => ongoing[s].stops > 0

\* A producer that leaves the connect or the read loop enters the teardown;
\* stop is dispatched with the clients set just cleared; done is set when
\* the stop request returns, and the task ends only with done set.
TeardownOrder ==
    \A s \in Sessions :
        /\ (fetch[s].pc \in {"connect", "read", "write"}
            /\ fetch'[s].pc \notin {"connect", "read", "write", "wait_lock_sweep",
                                    "sweep_eof", "wait_lock_fanout"})
           => fetch'[s].pc \in {"wait_lock_teardown", "stop"}
        /\ ongoing'[s].stops > ongoing[s].stops
           => /\ ongoing'[s].clients = {}
              /\ fetch'[s].pc = "stop"
        /\ (~ongoing[s].done /\ ongoing'[s].done)
           => fetch[s].pc = "stop" /\ ongoing[s].stops > 0
        /\ (ongoing[s].task = "running" /\ ongoing'[s].task = "done")
           => ongoing'[s].done

\* C16: on every exit path the producer first clears the remaining
\* subscribers, then dispatches stop, and only afterwards sets done; done is
\* never set for a session whose stop has not been dispatched.
C16_TeardownOrder == []StopBeforeDone /\ [][TeardownOrder]_vars

\* A producer that delivered a chunk has dispatched stop and set done, and
\* is about to remove its registry entry.
C16_Witness ==
    \E s \in Sessions, h \in Handlers :
        /\ fetch[s].pc = "wait_streams_lock"
        /\ ongoing[s].done
        /\ ongoing[s].stops = 1
        /\ recv[h] # <<>>
        /\ recv[h][1][1] = s

\* ==================================================================== C17
\* Whatever the stop request answers, done is set when it returns and the
\* producer either removes its entry at once or queues for streams_lock;
\* when it is handed streams_lock, after a failed stop as after a successful
\* one, it removes the entry of its key and ends.
StopBestEffort ==
    \A s \in Sessions :
        /\ (fetch[s].pc = "stop" /\ fetch'[s].pc # "stop")
           => /\ ongoing'[s].done
              /\ \/ /\ fetch'[s].pc = "exited"
                    /\ streams'[ongoing[s].stream_id] = 0
                 \/ /\ fetch'[s].pc = "wait_streams_lock"
                    /\ \E i \in DOMAIN streams_lock'.waiters :
                           streams_lock'.waiters[i] = ProducerTask(s)
        /\ (fetch[s].pc = "wait_streams_lock" /\ fetch'[s].pc # "wait_streams_lock")
           => /\ fetch'[s].pc = "exited"
              /\ ongoing'[s].done
              /\ ongoing'[s].task = "done"
              /\ streams'[ongoing[s].stream_id] = 0

\* A producer that has ended has set done.
EndedWithDone ==
    \A s \in Sessions : fetch[s].pc = "exited" => ongoing[s].done

\* C17: a stop request that fails (status other than 200, error field,
\* exception) is swallowed: done is set and the registry entry is removed
\* exactly as when stop succeeds.
C17_StopBestEffort == []EndedWithDone /\ [][StopBestEffort]_vars

\* The stop request failed; done is set and the producer is queued for
\* streams_lock to remove its entry.
C17_Witness ==
    \E s \in Sessions :
        /\ fetch[s].pc = "wait_streams_lock"
        /\ fetch[s].stop_failed
        /\ ongoing[s].done
        /\ streams[ongoing[s].stream_id] = s

\* ==================================================================== C18
\* started is set once first_chunk or done is set, once the producer reads
\* the body, and once the producer is in its teardown or has ended.
StartedState ==
    \A s \in Sessions :
        \/ ongoing[s].started
        \/ /\ ~ongoing[s].first_chunk
           /\ ~ongoing[s].done
           /\ ongoing[s].task # "done"
           /\ fetch[s].pc \in {"none", "connect"}

\* C18: if first_chunk or done is set then started is set; the producer sets
\* started before it reads the first chunk and on every failing exit, so no
\* terminated producer leaves a handler waiting on started.
C18_Started == StartedState

\* The connect failed; the handler that spawned the producer still waits on
\* started, which is set.
C18_Witness ==
    \E h \in Handlers, s \in Sessions :
        /\ getstream[h].pc = "wait_started"
        /\ getstream[h].ongoing = s
        /\ ongoing[s].started
        /\ ~ongoing[s].first_chunk
        /\ fetch[s].pc \in {"wait_lock_teardown", "stop"}

\* ==================================================================== C19
\* Handler h has left handle_getstream, by a return or by an exception.
Left(h) == getstream[h].pc \in {"returned", "raised"}

\* C19: on every exit path of handle_getstream taken after its response was
\* added to the clients set (done, readiness timeout, exception or
\* cancellation while waiting) the response is removed from the set before
\* the handler returns: no response of a handler that has left remains in
\* any clients set.
C19_DetachOnEveryExit ==
    \A h \in Handlers, s \in Sessions : Left(h) => h \notin ongoing[s].clients

\* ==================================================================== C20
\* Task t is queued on lock l.
Waiting(l, t) == \E i \in DOMAIN l.waiters : l.waiters[i] = t

\* No task that holds a session lock holds or awaits streams_lock: the
\* holder of a session lock is its producer, inside a write or a write_eof.
SessionLockInnermost ==
    \A s \in Sessions :
        ongoing[s].lock.holder # NoTask
        => /\ ongoing[s].lock.holder = ProducerTask(s)
           /\ fetch[s].pc \in {"write", "sweep_eof"}
           /\ streams_lock.holder # ProducerTask(s)
           /\ ~Waiting(streams_lock, ProducerTask(s))

\* The holder of streams_lock is a handler inside open, or handle_status
\* queued on the lock of the registered session (registry, then session).
RegistryLockOutermost ==
    streams_lock.holder # NoTask
    => \/ \E h \in Handlers : /\ streams_lock.holder = HandlerTask(h)
                              /\ getstream[h].pc = "open"
       \/ /\ streams_lock.holder = StatusTask
          /\ statusreq.pc = "wait_lock"
          /\ Waiting(ongoing[statusreq.ongoing].lock, StatusTask)

\* Every task queued on a lock is suspended in the acquire of that lock, and
\* holds no session lock.
WaitersWait ==
    /\ \A h \in Handlers :
           /\ Waiting(streams_lock, HandlerTask(h))
              <=> getstream[h].pc = "wait_streams_lock"
           /\ \A s \in Sessions :
                  Waiting(ongoing[s].lock, HandlerTask(h))
                  <=> /\ getstream[h].ongoing = s
                      /\ getstream[h].pc \in {"wait_lock_attach", "wait_lock_timeout",
                                              "wait_lock_cleanup"}
    /\ \A s \in Sessions :
           /\ Waiting(streams_lock, ProducerTask(s))
              <=> fetch[s].pc = "wait_streams_lock"
           /\ Waiting(ongoing[s].lock, ProducerTask(s))
              <=> fetch[s].pc \in {"wait_lock_sweep", "wait_lock_fanout",
                                   "wait_lock_teardown"}
    /\ Waiting(streams_lock, StatusTask) <=> statusreq.pc = "wait_streams_lock"

\* Whenever a task is queued on a lock, some task that was started can take
\* a step: the tasks are not all waiting for one another.
NoDeadlock ==
    (\/ streams_lock.waiters # <<>>
     \/ \E s \in Sessions : ongoing[s].lock.waiters # <<>>)
    => ENABLED (\/ \E h \in Handlers : HandlerProgress(h)
                \/ \E s \in Sessions : ProducerStep(s) \/ SweepStep(s)
                \/ StatusStreamsLockAcquired
                \/ StatusLockAcquired)

\* C20: no task acquires streams_lock while it holds a session lock, the
\* only nesting is registry-then-session, and the producer never holds both;
\* so every lock is held by a task that awaits I/O or, for handle_status, a
\* session lock whose holder awaits I/O: no state is a deadlock.
C20_LockDiscipline ==
    /\ SessionLockInnermost
    /\ RegistryLockOutermost
    /\ WaitersWait
    /\ NoDeadlock

\* handle_status holds streams_lock and is queued on the session lock, which
\* the producer holds inside a write, while a handler is queued on
\* streams_lock.
C20_Witness ==
    \E s \in Sessions, h \in Handlers :
        /\ statusreq.pc = "wait_lock"
        /\ statusreq.ongoing = s
        /\ ongoing[s].lock.holder = ProducerTask(s)
        /\ fetch[s].pc = "write"
        /\ Waiting(streams_lock, HandlerTask(h))

\* ==================================================================== C21
\* The handlers that hold session s and spawned a producer for it (they
\* perform the readiness wait).
Spawners(s) == {h \in Handlers : getstream[h].ongoing = s /\ getstream[h].need_to_wait}

\* A producer is spawned only under a session whose task is absent or
\* finished: no second task is created while one runs.
SpawnsWhenInactive ==
    \A s \in Sessions :
        ongoing'[s].spawns > ongoing[s].spawns
        => /\ TaskInactive(ongoing[s])
           /\ ongoing'[s].task = "running"

\* The handlers attaching to a session spawn one producer between them and
\* one of them performs the readiness wait.
OneSpawn ==
    \A s \in Sessions :
        /\ ongoing[s].spawns <= 1
        /\ Cardinality(Spawners(s)) <= 1
        /\ ongoing[s].clients # {} /\ ongoing[s].stops = 0 => ongoing[s].spawns = 1

\* C21: for every OngoingStream at most one producer task runs at any
\* instant; a producer is spawned only when the task is absent or finished,
\* so the handlers attaching to a freshly registered session spawn exactly
\* one producer between them and exactly one performs the readiness wait.
C21_OneProducerPerSession == []OneSpawn /\ [][SpawnsWhenInactive]_vars

\* ==================================================================== C22
\* The stale sweep of session s removes subscriber c in this step.
Evicts(s, c) ==
    /\ fetch[s].pc \in {"read", "wait_lock_sweep"}
    /\ fetch'[s].pc = "sweep_eof"
    /\ c \in ongoing[s].clients
    /\ c \notin ongoing'[s].clients

\* The subscriber joined a session whose producer was already running.
JoinedRunning(c) == ~getstream[c].need_to_wait

\* A subscriber the sweep removes attached at least StaleAfter before; one
\* that joined a running session and was offered no chunk yet is kept.
EvictsOnlyStale ==
    \A s \in Sessions, c \in Handlers :
        Evicts(s, c)
        => /\ now - getstream[c].attached_at >= StaleAfter
           /\ JoinedRunning(c) => ongoing[s].client_last_write[c] # NoTime

\* C22: the stale sweep never evicts a subscriber that attached less than
\* 30 s before it; a subscriber that joined a running session and has no
\* recorded last write is kept by a sweep that runs before its first
\* fan-out.
C22_SweepKeepsFreshSubscriber == [][EvictsOnlyStale]_vars

\* ==================================================================== C23
\* Subscriber c of session s was offered a chunk and accepted every chunk
\* offered: its last write is recorded and no write to it failed (a failed
\* write puts it among dead_clients, which the same fan-out removes).
AcceptedAll(s, c) ==
    /\ ongoing[s].client_last_write[c] # NoTime
    /\ c \notin fetch[s].dead_clients

\* Upstream resumed after a pause shorter than the read timeout.
ResumedInTime(s, c) ==
    fetch'[s].current_time - ongoing[s].client_last_write[c] < EmptyTimeout

KeepsAccepting ==
    \A s \in Sessions, c \in Handlers :
        AcceptedAll(s, c) /\ ResumedInTime(s, c) => ~Evicts(s, c)

\* C23: a subscriber that accepted every chunk offered to it is never
\* evicted: when upstream pauses for more than 30 s, less than the empty
\* timeout, and resumes, the subscribers attached before the pause stay in
\* the subscriber set.
C23_AcceptingSubscriberStays == [][KeepsAccepting]_vars

\* ==================================================================== C24
\* Handler h has added its response to the clients of a session.
Attached(h) == getstream[h].attached_at # NoTime

\* A producer task of session s is running and has not yet set done.
ProducerWillSetDone(s) ==
    /\ ongoing[s].task = "running"
    /\ fetch[s].pc \notin {"none", "wait_streams_lock", "exited"}

\* A handler that waits on done waits on a session whose done is set or
\* whose producer is running and still has to set it.
DoneWillBeSet ==
    \A h \in Handlers :
        getstream[h].pc = "wait_done"
        => \/ ongoing[getstream[h].ongoing].done
           \/ ProducerWillSetDone(getstream[h].ongoing)

\* C24: every handle_getstream call that attached to a session eventually
\* returns, under fairness: a handler that waits on done waits on a session
\* whose done is set or whose running producer will set it.
C24_AttachedHandlerReturns ==
    /\ []DoneWillBeSet
    /\ \A h \in Handlers : Attached(h) ~> Left(h)

\* A handler that received a chunk and waited on done has returned.
C24_Witness ==
    \E h \in Handlers :
        /\ Attached(h)
        /\ getstream[h].pc = "returned"
        /\ getstream[h].status = 200
        /\ recv[h] # <<>>
        /\ ongoing[getstream[h].ongoing].done

====
